---- MODULE Spec2Model ----
(***************************************************************************)
(* Model of ulb-backend (source-code/backend/src/main.rs): the CLI entry   *)
(* point, configuration validation, and the build pipeline that drives a   *)
(* podman container through the fixed sequence of build stages.            *)
(*                                                                         *)
(* Every podman process the program spawns is one step of the model; its   *)
(* outcome is "ok" (exit status zero), "nonzero" (non-zero exit status) or *)
(* "ioerr" (the process could not be spawned, the io::Error that `?`       *)
(* propagates).  The host is the record fs and does not change during a    *)
(* run: opening a file fails exactly when the file is missing, and         *)
(* spawning podman fails exactly when podman is not installed; the exit    *)
(* status of a spawned podman is chosen by the environment at each step.   *)
(* Host calls that only prepare directories (canonicalize, create_dir_all, *)
(* read_dir) succeed on such a host and are not steps of their own.        *)
(* trace is a history variable: every call, return, progress event, host   *)
(* file open and podman invocation, in program order.                      *)
(***************************************************************************)
EXTENDS Integers, Sequences, FiniteSets, TLC

VARIABLES
    command,      \* Commands variant chosen on the command line
    config,       \* Config: distro, image_name, installer, architecture
    release,      \* Build { release }
    json_output,  \* Build { json_output }
    fs,           \* host files and directories the program looks at
    pc,           \* position of the program
    stage,        \* index into Pipeline of the stage being run (0: none yet)
    body,         \* the statements of the running stage between its two progress events
    ip,           \* index into body of the next statement
    ci,           \* index of the next command of the running podman_exec call
    guard,        \* TRUE once defer! { cleanup_container } is registered
    pending,      \* the error in flight while the deferred cleanup runs
    result,       \* what main returns
    sandbox_tmp,  \* the files under /tmp of the container
    invocations,  \* concurrent builds: the position and result of each
    containers,   \* podman's store: the containers that exist, by name
    issued,       \* history: who gave which podman command to whose container
    collided,     \* history: the builds whose podman create found the name taken
    trace         \* history of observable events

vars == <<command, config, release, json_output, fs, pc, stage, body, ip, ci,
          guard, pending, result, sandbox_tmp, invocations, containers, issued,
          collided, trace>>

-----------------------------------------------------------------------------
(* Bounds and input sets *)

\* longest command list handed to podman_exec in the stand-alone specification
MaxCmds == 3

None == [some |-> FALSE, val |-> ""]
Some(v) == [some |-> TRUE, val |-> v]

Absent == [exists |-> FALSE, lines |-> <<>>]
File(ls) == [exists |-> TRUE, lines |-> ls]

NoDir == [exists |-> FALSE, entries |-> <<>>]
Dir(es) == [exists |-> TRUE, entries |-> es]

Distros == {"fedora", "debian", "arch"}
ImageNames == {"", "hackeros"}
Installers == {None, Some("calamares")}
Architectures == {None}
CommandKinds == {"build", "clean", "status"}
PackageFiles == {Absent, File(<<>>), File(<<"vim", "bash">>)}
RemoveFiles == {Absent, File(<<"nano">>)}
Entry(stem, ext) == [stem |-> stem, ext |-> ext]
ScriptDirs == {NoDir, Dir(<<Entry("b", "sh"), Entry("notes", "txt"), Entry("a", "sh")>>)}
ExitOutcomes == {"ok", "nonzero"}
ExecCmds == {"true", "false", "make"}

\* the scripts directories run_scripts is explored over on its own: every
\* listing order of at most MaxEntries distinct files
MaxEntries == 3
EntryPool == {Entry("a", "sh"), Entry("b", "sh"), Entry("c", "sh"), Entry("notes", "txt")}
Listings ==
    UNION {{l \in [1..n -> EntryPool] : \A x, y \in 1..n : x # y => l[x] # l[y]} :
           n \in 0..MaxEntries}
ScriptListings == {NoDir} \cup {Dir(l) : l \in Listings}

-----------------------------------------------------------------------------
(* Values *)

Pending == [kind |-> "pending", stage |-> "", message |-> ""]
Ok == [kind |-> "Ok", stage |-> "", message |-> ""]
IoError == [kind |-> "Io", stage |-> "", message |-> ""]
CommandError(s, m) == [kind |-> "Command", stage |-> s, message |-> m]
ValidationError(m) == [kind |-> "Validation", stage |-> "", message |-> m]
UnsupportedDistro(d) == [kind |-> "UnsupportedDistro", stage |-> "", message |-> d]

IsErr(r) == r.kind \notin {"pending", "Ok"}

Ev(type, fn, op, arg, out) ==
    [type |-> type, fn |-> fn, op |-> op, arg |-> arg, out |-> out]

CallEv(fn) == Ev("call", fn, "", "", "")
ReturnEv(fn, r) == Ev("return", fn, "", "", IF IsErr(r) THEN "Err" ELSE "Ok")
PodmanEv(fn, op, arg, out) == Ev("podman", fn, op, arg, out)
OpenEv(fn, path, out) == Ev("open", fn, "open", path, out)

-----------------------------------------------------------------------------
(* Text helpers *)

RECURSIVE Join(_, _)
\* slice::join: the elements separated by sep
Join(ss, sep) ==
    IF ss = <<>> THEN ""
    ELSE IF Len(ss) = 1 THEN ss[1]
    ELSE ss[1] \o sep \o Join(Tail(ss), sep)

RECURSIVE DropLeadingEmpty(_)
DropLeadingEmpty(ss) ==
    IF ss # <<>> /\ Head(ss) = "" THEN DropLeadingEmpty(Tail(ss)) ELSE ss

RECURSIVE DropTrailingEmpty(_)
DropTrailingEmpty(ss) ==
    IF ss # <<>> /\ ss[Len(ss)] = ""
    THEN DropTrailingEmpty(SubSeq(ss, 1, Len(ss) - 1))
    ELSE ss

\* packages.lines().collect::<Vec<_>>().join(" ") followed by .trim(): lines
\* hold no blanks of their own, so trimming the joined text removes exactly
\* the separators left by empty first and last lines.
JoinedPackages(file) ==
    Join(DropTrailingEmpty(DropLeadingEmpty(file.lines)), " ")

BoolText(b) == IF b THEN "true" ELSE "false"

\* DirEntry::file_name
file_name(e) == e.stem \o "." \o e.ext

\* byte-wise order of the file names the model uses
LexOrder == <<"a.sh", "b.sh", "c.sh", "notes.txt">>
Rank(name) == CHOOSE i \in 1..Len(LexOrder) : LexOrder[i] = name

RECURSIVE InsertSorted(_, _)
InsertSorted(e, sorted) ==
    IF sorted = <<>> THEN <<e>>
    ELSE IF Rank(file_name(e)) < Rank(file_name(Head(sorted)))
         THEN <<e>> \o sorted
         ELSE <<Head(sorted)>> \o InsertSorted(e, Tail(sorted))

\* the entries in the order read_dir listed them
SortByFileName_unsorted(es) == es

RECURSIVE SortByFileName(_)
\* entries.sort_by_key(|e| e.file_name())
SortByFileName(es) ==
    IF es = <<>> THEN <<>>
    ELSE InsertSorted(es[Len(es)], SortByFileName(SubSeq(es, 1, Len(es) - 1)))

-----------------------------------------------------------------------------
(* Configuration *)

SupportedDistros == {"fedora", "debian"}

\* the package-lists file is not looked at
validate_config_without_package_lists(cfg, files) ==
    IF cfg.distro \notin SupportedDistros
    THEN ValidationError("Unsupported distro: " \o cfg.distro)
    ELSE IF cfg.image_name = ""
    THEN ValidationError("image_name cannot be empty")
    ELSE Ok

\* validate_config: the package list is looked up next to the config file
validate_config(cfg, files) ==
    IF cfg.distro \notin SupportedDistros
    THEN ValidationError("Unsupported distro: " \o cfg.distro)
    ELSE IF cfg.image_name = ""
    THEN ValidationError("image_name cannot be empty")
    ELSE IF ~files.cfg_package_lists.exists \/ Len(files.cfg_package_lists.lines) = 0
    THEN ValidationError("package-lists file is missing or empty")
    ELSE Ok

\* an unknown distro falls through to the Debian backend
create_distro_backend_fallback(cfg) == Ok

\* create_distro_backend: Ok for the two backends, UnsupportedDistro otherwise
create_distro_backend(cfg) ==
    IF cfg.distro = "fedora" THEN Ok
    ELSE IF cfg.distro = "debian" THEN Ok
    ELSE UnsupportedDistro(cfg.distro)

\* the default_arch FedoraBackend::new / DebianBackend::new hand to BaseBackend::new
DefaultArch(cfg) == IF cfg.distro = "fedora" THEN "x86_64" ELSE "amd64"

Arch(cfg) == IF cfg.architecture.some THEN cfg.architecture.val ELSE DefaultArch(cfg)

\* BaseBackend::new
container_image(cfg) == cfg.distro \o ":latest-" \o Arch(cfg)
container_name(cfg) == "ulb-" \o cfg.distro \o "-builder"

\* progress is reported in JSON mode only
emit_progress_json_only(stage_name, progress, json) ==
    IF json
    THEN Ev("progress", stage_name, "json", progress, "")
    ELSE Ev("none", stage_name, "", "", "")

\* BaseBackend::emit_progress: one event on either channel
emit_progress(stage_name, progress, json) ==
    Ev("progress", stage_name, IF json THEN "json" ELSE "info", progress, "")

-----------------------------------------------------------------------------
(* Stage bodies: the statements of each stage function between its         *)
(* emit_progress(.., 0.0) and its emit_progress(.., 1.0), in program order. *)

Instr(kind, cmds, stage_name, path, dest) ==
    [kind |-> kind, cmds |-> cmds, stage |-> stage_name, path |-> path, dest |-> dest]

\* podman_exec(container, cmds, stage)?
Exec(cmds, stage_name) == Instr("exec", cmds, stage_name, "", "")
\* File::open(path)?.read_to_string(..)?
Open(path) == Instr("open", <<>>, "", path, "")
\* podman_cp(src, container, dest)?
Cp(src, dest) == Instr("cp", <<>>, "", src, dest)
\* podman_exec of a command line that ends in "&& rm <target>"
ExecRm(cmd, stage_name, target) == Instr("exec", <<cmd>>, stage_name, "", target)

\* what Command::status() / Command::output() can report for a podman process
Outcomes == IF fs.podman THEN ExitOutcomes ELSE {"ioerr"}

\* the file of base_dir (the working directory) a stage opens
BaseFile(path) ==
    IF path = "package-lists" THEN fs.package_lists ELSE fs.remove_list

\* the packages are installed without refreshing the metadata cache
FedoraBackend_install_packages_without_makecache ==
    << Open("package-lists"),
       Exec(<<"dnf --cachedir=/cache/dnf install -y " \o JoinedPackages(fs.package_lists)>>,
            "install_packages") >>

FedoraBackend_install_packages ==
    << Exec(<<"dnf makecache --cachedir=/cache/dnf">>, "install_packages"),
       Open("package-lists"),
       Exec(<<"dnf --cachedir=/cache/dnf install -y " \o JoinedPackages(fs.package_lists)>>,
            "install_packages") >>

\* the install command is given before the index refresh
DebianBackend_install_packages_install_first ==
    << Open("package-lists"),
       Exec(<<"DEBIAN_FRONTEND=noninteractive apt install -y "
                  \o JoinedPackages(fs.package_lists),
              "apt update">>,
            "install_packages") >>

DebianBackend_install_packages ==
    << Open("package-lists"),
       Exec(<<"apt update",
              "DEBIAN_FRONTEND=noninteractive apt install -y "
                  \o JoinedPackages(fs.package_lists)>>,
            "install_packages") >>

\* the removal list is read without testing that it exists
FedoraBackend_remove_packages_unguarded ==
    << Open("packages-lists-remove"),
       Exec(<<"dnf remove -y " \o JoinedPackages(fs.remove_list)>>, "remove_packages") >>

FedoraBackend_remove_packages ==
    IF fs.remove_list.exists
    THEN << Open("packages-lists-remove"),
            Exec(<<"dnf remove -y " \o JoinedPackages(fs.remove_list)>>, "remove_packages") >>
    ELSE <<>>

DebianBackend_remove_packages ==
    IF fs.remove_list.exists
    THEN << Open("packages-lists-remove"),
            Exec(<<"DEBIAN_FRONTEND=noninteractive apt remove -y "
                       \o JoinedPackages(fs.remove_list)>>, "remove_packages") >>
    ELSE <<>>

\* format!("bash /tmp/{} && rm /tmp/{}", name, name)
run_cmd(name) == "bash /tmp/" \o name \o " && rm /tmp/" \o name

RECURSIVE ScriptSteps_keeping_copy(_)
\* the loop without the removal of the copy
ScriptSteps_keeping_copy(es) ==
    IF es = <<>> THEN <<>>
    ELSE (IF Head(es).ext = "sh"
          THEN << Cp("scripts/" \o file_name(Head(es)), "/tmp/" \o file_name(Head(es))),
                  Exec(<<"bash /tmp/" \o file_name(Head(es))>>, "run_scripts") >>
          ELSE <<>>)
         \o ScriptSteps_keeping_copy(Tail(es))

RECURSIVE ScriptSteps(_)
\* the loop of run_scripts over the sorted entries: only *.sh entries are
\* copied to /tmp and run, each followed by the removal of its copy
ScriptSteps(es) ==
    IF es = <<>> THEN <<>>
    ELSE (IF Head(es).ext = "sh"
          THEN << Cp("scripts/" \o file_name(Head(es)), "/tmp/" \o file_name(Head(es))),
                  ExecRm(run_cmd(file_name(Head(es))), "run_scripts",
                         "/tmp/" \o file_name(Head(es))) >>
          ELSE <<>>)
         \o ScriptSteps(Tail(es))

run_scripts ==
    IF fs.scripts.exists THEN ScriptSteps(SortByFileName(fs.scripts.entries)) ELSE <<>>

FedoraBackend_build_rootfs ==
    << Exec(<<"dnf install --installroot /workspace/build/rootfs --releasever=latest -y @core">>,
            "build_rootfs") >>

DebianBackend_build_rootfs ==
    << Exec(<<"debootstrap --arch="
                  \o (IF config.architecture.some THEN config.architecture.val ELSE "amd64")
                  \o " stable /workspace/build/rootfs http://deb.debian.org/debian">>,
            "build_rootfs") >>

copy_files ==
    (IF fs.files
     THEN << Exec(<<"cp -r /workspace/files/* /workspace/build/rootfs">>, "copy_files") >>
     ELSE <<>>)
    \o
    (IF fs.install_files
     THEN << Exec(<<"mkdir -p /workspace/build/rootfs/opt/install-files">>, "copy_files"),
             Exec(<<"cp -r /workspace/install-files/* /workspace/build/rootfs/opt/install-files">>,
                  "copy_files") >>
     ELSE <<>>)

FedoraBackend_install_installer ==
    IF config.installer.some
    THEN << Exec(<<"dnf install -y " \o config.installer.val>>, "install_installer") >>
    ELSE <<>>

DebianBackend_install_installer ==
    IF config.installer.some
    THEN << Exec(<<"DEBIAN_FRONTEND=noninteractive apt install -y " \o config.installer.val>>,
                 "install_installer") >>
    ELSE <<>>

FedoraBackend_install_custom_packages ==
    IF fs.repos
    THEN << Exec(<<"cp /workspace/repos/* /etc/yum.repos.d/">>, "install_custom_packages"),
            Exec(<<"dnf update -y">>, "install_custom_packages") >>
    ELSE <<>>

DebianBackend_install_custom_packages ==
    IF fs.repos
    THEN << Exec(<<"cp /workspace/repos/* /etc/apt/sources.list.d/">>, "install_custom_packages"),
            Exec(<<"apt update">>, "install_custom_packages") >>
    ELSE <<>>

\* iso_name of create_iso
\* the two file names exchanged
IsoName_swapped(rel) == IF rel THEN "debug.iso" ELSE "release.iso"

IsoName(rel) == IF rel THEN "release.iso" ELSE "debug.iso"

FedoraArch == IF config.architecture.some THEN config.architecture.val ELSE "x86_64"

FedoraBackend_create_iso ==
    << Exec(<<"lorax -p " \o config.image_name
                  \o " -v latest -r latest --rootfs-size=3 --buildarch=" \o FedoraArch
                  \o " -s http://download.fedoraproject.org/pub/fedora/linux/releases/latest/Everything/"
                  \o FedoraArch \o "/os/ --isfinal=" \o BoolText(release)
                  \o " /workspace/build/release/" \o IsoName(release)>>,
            "create_iso") >>

DebianBackend_create_iso ==
    << Exec(<<"xorriso -as mkisofs -o /workspace/build/release/" \o IsoName(release)
                  \o " /workspace/build/rootfs">>,
            "create_iso") >>

\* run_scripts and build_rootfs called in the opposite order
PipelineSwapped ==
    << "install_packages", "remove_packages", "build_rootfs", "run_scripts",
       "copy_files", "install_installer", "install_custom_packages", "create_iso" >>

\* the calls of build_iso_pipeline after setup_container, in program order
Pipeline ==
    << "install_packages", "remove_packages", "run_scripts", "build_rootfs",
       "copy_files", "install_installer", "install_custom_packages", "create_iso" >>

\* dispatch through &dyn DistroBackend (or to the BaseBackend method)
StageBody(name) ==
    LET fedora == config.distro = "fedora" IN
    CASE name = "install_packages" ->
           IF fedora THEN FedoraBackend_install_packages ELSE DebianBackend_install_packages
      [] name = "remove_packages" ->
           IF fedora THEN FedoraBackend_remove_packages ELSE DebianBackend_remove_packages
      [] name = "run_scripts" -> run_scripts
      [] name = "build_rootfs" ->
           IF fedora THEN FedoraBackend_build_rootfs ELSE DebianBackend_build_rootfs
      [] name = "copy_files" -> copy_files
      [] name = "install_installer" ->
           IF fedora THEN FedoraBackend_install_installer ELSE DebianBackend_install_installer
      [] name = "install_custom_packages" ->
           IF fedora THEN FedoraBackend_install_custom_packages
           ELSE DebianBackend_install_custom_packages
      [] name = "create_iso" ->
           IF fedora THEN FedoraBackend_create_iso ELSE DebianBackend_create_iso

-----------------------------------------------------------------------------
(* Results of the single external steps *)

\* setup_container, podman pull: `?` on the spawn, then the status check
pull_result(out) ==
    IF out = "ioerr" THEN IoError
    ELSE IF out # "ok" THEN CommandError("setup_container", "Podman pull failed")
    ELSE Ok

\* the status of podman create is dropped, as that of podman start is
create_result_unchecked(out) == IF out = "ioerr" THEN IoError ELSE Ok

\* setup_container, podman create: `?` on the spawn, then the status check
create_result(out) ==
    IF out = "ioerr" THEN IoError
    ELSE IF out # "ok" THEN CommandError("setup_container", "Podman create failed")
    ELSE Ok

\* setup_container, podman start: `?` on the spawn only, the status is dropped
start_result(out) ==
    IF out = "ioerr" THEN IoError ELSE Ok

\* podman_exec, one iteration of the loop over cmds
\* output.stderr of a command that ran: what it wrote before it failed
captured_stderr(out) == IF out = "nonzero" THEN "exit status 1" ELSE ""

\* the error podman_exec builds for a failed command; the captured stderr
\* goes to the log line only
exec_error(cmd, stage_name, stderr) == CommandError(stage_name, "Command failed: " \o cmd)

exec_result(cmd, stage_name, out) ==
    IF out = "ioerr" THEN IoError
    ELSE IF out # "ok" THEN exec_error(cmd, stage_name, captured_stderr(out))
    ELSE Ok

\* the exit status of podman cp is not looked at
cp_result_unchecked(out) ==
    IF out = "ioerr" THEN IoError ELSE Ok

\* podman_cp
cp_result(out) ==
    IF out = "ioerr" THEN IoError
    ELSE IF out # "ok" THEN CommandError("podman_cp", "Podman cp failed")
    ELSE Ok

\* File::open(..)?: fails exactly when the file is missing
open_result(file) == IF file.exists THEN Ok ELSE IoError

\* cleanup_container: `let _ =` drops both statuses and both spawn errors
cleanup_result(stop_out, rm_out) == Ok

\* cleanup_container gives up when podman stop did not succeed
cleanup_after_stop_checked(stop_out) == IF stop_out = "ok" THEN "rm" ELSE "return"

\* what cleanup_container does after podman stop: `let _ =` drops its result
cleanup_after_stop(stop_out) == "rm"

\* what a copy leaves in the container: the file at its destination
cp_effect(ins, out, tmp) == IF out = "ok" THEN tmp \cup {ins.dest} ELSE tmp

\* what a command line leaves in the container: "a && rm f" exits with zero
\* only when a succeeded and rm removed f, and rm does not run when a fails
sh_effect(ins, out, tmp) == IF out = "ok" THEN tmp \ {ins.dest} ELSE tmp

\* podman rm -f removes the container and the files in it
rm_effect(out, tmp) == IF out = "ok" THEN {} ELSE tmp

-----------------------------------------------------------------------------
(* Initial states *)

Configs ==
    [distro : Distros, image_name : ImageNames, installer : Installers,
     architecture : Architectures]

\* package-lists next to the config file and in the working directory: the
\* same file when the config lies in the working directory, and a
\* working directory without the file when it lies elsewhere
PackageListPairs ==
    {<<f, f>> : f \in PackageFiles} \cup {<<f, Absent>> : f \in PackageFiles}

Workspaces ==
    {[cfg_package_lists |-> p[1], package_lists |-> p[2],
      remove_list |-> r, scripts |-> sd,
      files |-> f, install_files |-> i, repos |-> rp, podman |-> pm] :
        p \in PackageListPairs, r \in RemoveFiles, sd \in ScriptDirs,
        f \in BOOLEAN, i \in BOOLEAN, rp \in BOOLEAN, pm \in BOOLEAN}

\* every optional input of the build is present, or every one is absent
OptionalInputsUniform(cfg, files) ==
    \/ /\ cfg.installer.some /\ files.remove_list.exists /\ files.scripts.exists
       /\ files.files /\ files.install_files /\ files.repos
    \/ /\ ~cfg.installer.some /\ ~files.remove_list.exists /\ ~files.scripts.exists
       /\ ~files.files /\ ~files.install_files /\ ~files.repos

\* The inputs of a run.  Build runs take every combination of optional
\* inputs with the flags --release off and --json-output on and podman
\* installed, and every combination of the two flags and of podman installed
\* or not with the optional inputs all present or all absent; Clean and
\* Status carry no flags.
Init ==
    /\ command \in CommandKinds
    /\ config \in Configs
    /\ release \in BOOLEAN
    /\ json_output \in BOOLEAN
    /\ fs \in Workspaces
    /\ command = "build" =>
          \/ ~release /\ json_output /\ fs.podman
          \/ OptionalInputsUniform(config, fs)
    /\ command # "build" =>
          ~release /\ ~json_output /\ OptionalInputsUniform(config, fs)
    /\ pc = "main"
    /\ stage = 0
    /\ body = <<>>
    /\ ip = 1
    /\ ci = 1
    /\ guard = FALSE
    /\ pending = Pending
    /\ result = Pending
    /\ sandbox_tmp = {}
    /\ invocations = <<>>
    /\ containers = <<>>
    /\ issued = {}
    /\ collided = {}
    /\ trace = <<>>

-----------------------------------------------------------------------------
(* Control *)

\* the deferred cleanup is skipped when an error leaves the pipeline
RaiseSkippingDefer(err) ==
    /\ pc' = "done"
    /\ pending' = pending
    /\ result' = err

\* an error leaves the function through `?`: the cleanup deferred in
\* build_iso_pipeline runs first if it was registered, then main returns err
Raise(err) ==
    IF guard
    THEN /\ pc' = "cleanup_stop"
         /\ pending' = err
         /\ result' = result
    ELSE /\ pc' = "done"
         /\ pending' = pending
         /\ result' = err

\* main up to the match on the command: validate_config(&config, config_dir)?
Validate ==
    /\ pc = "main"
    /\ LET v == validate_config(config, fs) IN
         /\ trace' = trace \o <<CallEv("validate_config"), ReturnEv("validate_config", v)>>
         /\ IF IsErr(v)
            THEN pc' = "done" /\ result' = v
            ELSE pc' = "dispatch" /\ result' = result
    /\ UNCHANGED <<invocations, containers, issued, collided, sandbox_tmp, command, config, release, json_output, fs, stage, body, ip, ci,
                   guard, pending>>

\* Commands::Build: create_distro_backend(&config)?, then build_iso
BuildCmd ==
    /\ pc = "dispatch"
    /\ command = "build"
    /\ LET b == create_distro_backend(config) IN
         /\ trace' = trace \o <<CallEv("create_distro_backend"),
                                ReturnEv("create_distro_backend", b)>>
         /\ IF IsErr(b)
            THEN pc' = "done" /\ result' = b
            ELSE pc' = "setup_pull" /\ result' = result
    /\ UNCHANGED <<invocations, containers, issued, collided, sandbox_tmp, command, config, release, json_output, fs, stage, body, ip, ci,
                   guard, pending>>

\* Commands::Clean: clean_cache()
CleanCmd ==
    /\ pc = "dispatch"
    /\ command = "clean"
    /\ trace' = trace \o <<CallEv("clean_cache"), ReturnEv("clean_cache", Ok)>>
    /\ pc' = "done"
    /\ result' = Ok
    /\ UNCHANGED <<invocations, containers, issued, collided, sandbox_tmp, command, config, release, json_output, fs, stage, body, ip, ci,
                   guard, pending>>

\* Commands::Status: status() probes `podman --version` and never fails
StatusCmd ==
    /\ pc = "dispatch"
    /\ command = "status"
    /\ \E out \in Outcomes :
         trace' = trace \o <<CallEv("status"),
                             PodmanEv("status", "version", "--version", out),
                             ReturnEv("status", Ok)>>
    /\ pc' = "done"
    /\ result' = Ok
    /\ UNCHANGED <<invocations, containers, issued, collided, sandbox_tmp, command, config, release, json_output, fs, stage, body, ip, ci,
                   guard, pending>>

-----------------------------------------------------------------------------
(* setup_container *)

SetupPull ==
    /\ pc = "setup_pull"
    /\ \E out \in Outcomes :
         LET r == pull_result(out)
             evs == <<CallEv("setup_container"),
                      emit_progress("setup_container", "0.0", json_output),
                      PodmanEv("setup_container", "pull", container_image(config), out)>>
         IN IF IsErr(r)
            THEN /\ trace' = trace \o evs \o <<ReturnEv("setup_container", r)>>
                 /\ Raise(r)
            ELSE /\ trace' = trace \o evs
                 /\ pc' = "setup_create"
                 /\ UNCHANGED <<pending, result>>
    /\ UNCHANGED <<invocations, containers, issued, collided, sandbox_tmp, command, config, release, json_output, fs, stage, body, ip, ci, guard>>

SetupCreate ==
    /\ pc = "setup_create"
    /\ \E out \in Outcomes :
         LET r == create_result(out)
             evs == <<PodmanEv("setup_container", "create", container_name(config), out)>>
         IN IF IsErr(r)
            THEN /\ trace' = trace \o evs \o <<ReturnEv("setup_container", r)>>
                 /\ Raise(r)
            ELSE /\ trace' = trace \o evs
                 /\ pc' = "setup_start"
                 /\ UNCHANGED <<pending, result>>
    /\ UNCHANGED <<invocations, containers, issued, collided, sandbox_tmp, command, config, release, json_output, fs, stage, body, ip, ci, guard>>

\* podman start, emit_progress(.., 1.0), Ok(container_name); back in
\* build_iso_pipeline the defer! block is registered before the first stage
SetupStart ==
    /\ pc = "setup_start"
    /\ \E out \in Outcomes :
         LET r == start_result(out)
             evs == <<PodmanEv("setup_container", "start", container_name(config), out)>>
         IN IF IsErr(r)
            THEN /\ trace' = trace \o evs \o <<ReturnEv("setup_container", r)>>
                 /\ Raise(r)
                 /\ UNCHANGED <<guard, stage>>
            ELSE /\ trace' = trace \o evs
                        \o <<emit_progress("setup_container", "1.0", json_output),
                             ReturnEv("setup_container", Ok)>>
                 /\ guard' = TRUE
                 /\ stage' = 1
                 /\ pc' = "stage_enter"
                 /\ UNCHANGED <<pending, result>>
    /\ UNCHANGED <<invocations, containers, issued, collided, sandbox_tmp, command, config, release, json_output, fs, body, ip, ci>>

-----------------------------------------------------------------------------
(* The stages of build_iso_pipeline *)

\* the function whose statements are running
CurrentFn == IF stage = 0 THEN "podman_exec" ELSE Pipeline[stage]

\* the loop runs every command and reports only the last one's failure
exec_flow_run_all(r, i, n) ==
    IF i < n THEN "next_command"
    ELSE IF IsErr(r) THEN "return_err"
    ELSE "return_ok"

\* what the loop of podman_exec does after command i of n returned r
exec_flow(r, i, n) ==
    IF IsErr(r) THEN "return_err"
    ELSE IF i = n THEN "return_ok"
    ELSE "next_command"

\* build_iso_pipeline calls the next stage; the stage emits its entry event
StageEnter ==
    /\ pc = "stage_enter"
    /\ trace' = trace \o <<CallEv(Pipeline[stage]),
                           emit_progress(Pipeline[stage], "0.0", json_output)>>
    /\ body' = StageBody(Pipeline[stage])
    /\ ip' = 1
    /\ ci' = 1
    /\ pc' = "stage_body"
    /\ UNCHANGED <<invocations, containers, issued, collided, sandbox_tmp, command, config, release, json_output, fs, stage, guard, pending, result>>

\* one command of a podman_exec call
ExecStep ==
    /\ pc = "stage_body"
    /\ ip <= Len(body)
    /\ body[ip].kind = "exec"
    /\ LET ins == body[ip] IN
         IF ci > Len(ins.cmds)
         THEN /\ ip' = ip + 1
              /\ ci' = 1
              /\ UNCHANGED <<pc, pending, result, sandbox_tmp, trace>>
         ELSE \E out \in Outcomes :
                LET cmd == ins.cmds[ci]
                    r == exec_result(cmd, ins.stage, out)
                    ev == PodmanEv(CurrentFn, "exec", cmd, out)
                    flow == exec_flow(r, ci, Len(ins.cmds))
                IN /\ sandbox_tmp' = sh_effect(ins, out, sandbox_tmp)
                   /\ CASE flow = "return_err" ->
                             /\ trace' = trace \o <<ev, ReturnEv(CurrentFn, r)>>
                             /\ Raise(r)
                             /\ UNCHANGED <<ip, ci>>
                        [] flow = "return_ok" ->
                             /\ trace' = trace \o <<ev>>
                             /\ ip' = ip + 1
                             /\ ci' = 1
                             /\ UNCHANGED <<pc, pending, result>>
                        [] flow = "next_command" ->
                             /\ trace' = trace \o <<ev>>
                             /\ ci' = ci + 1
                             /\ UNCHANGED <<ip, pc, pending, result>>
    /\ UNCHANGED <<invocations, containers, issued, collided, command, config, release, json_output, fs, stage, body, guard>>

\* podman_cp of one script into the container
CpStep ==
    /\ pc = "stage_body"
    /\ ip <= Len(body)
    /\ body[ip].kind = "cp"
    /\ \E out \in Outcomes :
         LET r == cp_result(out)
             ev == PodmanEv(CurrentFn, "cp", body[ip].path, out)
         IN /\ sandbox_tmp' = cp_effect(body[ip], out, sandbox_tmp)
            /\ IF IsErr(r)
               THEN /\ trace' = trace \o <<ev, ReturnEv(CurrentFn, r)>>
                    /\ Raise(r)
                    /\ UNCHANGED ip
               ELSE /\ trace' = trace \o <<ev>>
                    /\ ip' = ip + 1
                    /\ UNCHANGED <<pc, pending, result>>
    /\ UNCHANGED <<invocations, containers, issued, collided, command, config, release, json_output, fs, stage, body, ci, guard>>

\* File::open(..)?.read_to_string(..)? of a list file of the working directory
OpenStep ==
    /\ pc = "stage_body"
    /\ ip <= Len(body)
    /\ body[ip].kind = "open"
    /\ LET r == open_result(BaseFile(body[ip].path))
           ev == OpenEv(CurrentFn, body[ip].path, IF IsErr(r) THEN "ioerr" ELSE "ok")
       IN IF IsErr(r)
          THEN /\ trace' = trace \o <<ev, ReturnEv(CurrentFn, r)>>
               /\ Raise(r)
               /\ UNCHANGED ip
          ELSE /\ trace' = trace \o <<ev>>
               /\ ip' = ip + 1
               /\ UNCHANGED <<pc, pending, result>>
    /\ UNCHANGED <<invocations, containers, issued, collided, sandbox_tmp, command, config, release, json_output, fs, stage, body, ci, guard>>

\* the stage emits its exit event and returns Ok(()); after create_iso the
\* pipeline returns Ok(()) and its scope ends
StageExit ==
    /\ pc = "stage_body"
    /\ ip > Len(body)
    /\ trace' = trace \o <<emit_progress(Pipeline[stage], "1.0", json_output),
                           ReturnEv(Pipeline[stage], Ok)>>
    /\ IF stage = Len(Pipeline)
       THEN /\ Raise(Ok)
            /\ UNCHANGED stage
       ELSE /\ stage' = stage + 1
            /\ pc' = "stage_enter"
            /\ UNCHANGED <<pending, result>>
    /\ UNCHANGED <<invocations, containers, issued, collided, sandbox_tmp, command, config, release, json_output, fs, body, ip, ci, guard>>

-----------------------------------------------------------------------------
(* cleanup_container, run by the defer! block when the pipeline's scope ends *)

CleanupStop ==
    /\ pc = "cleanup_stop"
    /\ \E out \in Outcomes :
         LET stop == PodmanEv("cleanup_container", "stop", container_name(config), out) IN
         IF cleanup_after_stop(out) = "rm"
         THEN /\ trace' = trace \o <<CallEv("cleanup_container"), stop>>
              /\ pc' = "cleanup_rm"
              /\ UNCHANGED <<guard, result>>
         ELSE /\ trace' = trace \o <<CallEv("cleanup_container"), stop,
                                     ReturnEv("cleanup_container", IoError)>>
              /\ guard' = FALSE
              /\ pc' = "done"
              /\ result' = pending
    /\ UNCHANGED <<invocations, containers, issued, collided, sandbox_tmp, command, config, release, json_output, fs, stage, body, ip, ci,
                   pending>>

CleanupRm ==
    /\ pc = "cleanup_rm"
    /\ \E out \in Outcomes :
         /\ trace' = trace \o <<PodmanEv("cleanup_container", "rm", container_name(config), out),
                                ReturnEv("cleanup_container",
                                         cleanup_result(trace[Len(trace)].out, out))>>
         /\ sandbox_tmp' = rm_effect(out, sandbox_tmp)
    /\ guard' = FALSE
    /\ pc' = "done"
    /\ result' = pending
    /\ UNCHANGED <<invocations, containers, issued, collided, command, config, release, json_output, fs, stage, body, ip, ci, pending>>

-----------------------------------------------------------------------------
(* Specifications *)

Next ==
    \/ Validate
    \/ BuildCmd
    \/ CleanCmd
    \/ StatusCmd
    \/ SetupPull
    \/ SetupCreate
    \/ SetupStart
    \/ StageEnter
    \/ ExecStep
    \/ CpStep
    \/ OpenStep
    \/ StageExit
    \/ CleanupStop
    \/ CleanupRm

Spec == Init /\ [][Next]_vars

\* podman_exec on its own: any list of at most MaxCmds commands
CmdLists == UNION {[1..n -> ExecCmds] : n \in 0..MaxCmds}

InitExec ==
    /\ command = "build"
    /\ config = [distro |-> "fedora", image_name |-> "hackeros", installer |-> None,
                 architecture |-> None]
    /\ release = FALSE
    /\ json_output = FALSE
    /\ \E pm \in BOOLEAN :
       fs = [cfg_package_lists |-> File(<<"vim", "bash">>),
             package_lists |-> File(<<"vim", "bash">>),
             remove_list |-> Absent, scripts |-> NoDir,
             files |-> FALSE, install_files |-> FALSE, repos |-> FALSE, podman |-> pm]
    /\ pc = "stage_body"
    /\ stage = 0
    /\ \E cmds \in CmdLists : body = <<Exec(cmds, "exec_in_sandbox")>>
    /\ ip = 1
    /\ ci = 1
    /\ guard = FALSE
    /\ pending = Pending
    /\ result = Pending
    /\ sandbox_tmp = {}
    /\ invocations = <<>>
    /\ containers = <<>>
    /\ issued = {}
    /\ collided = {}
    /\ trace = <<>>

NextExec == ExecStep

SpecExec == InitExec /\ [][NextExec]_vars

\* run_scripts on its own: the pipeline at its call of run_scripts, in a
\* provisioned container, over every listing of the scripts directory
RunScriptsStage == CHOOSE i \in DOMAIN Pipeline : Pipeline[i] = "run_scripts"

InitScripts ==
    /\ command = "build"
    /\ config = [distro |-> "fedora", image_name |-> "hackeros", installer |-> None,
                 architecture |-> None]
    /\ release = FALSE
    /\ json_output = FALSE
    /\ \E dir \in ScriptListings :
       fs = [cfg_package_lists |-> File(<<"vim", "bash">>),
             package_lists |-> File(<<"vim", "bash">>),
             remove_list |-> Absent, scripts |-> dir,
             files |-> FALSE, install_files |-> FALSE, repos |-> FALSE, podman |-> TRUE]
    /\ pc = "stage_enter"
    /\ stage = RunScriptsStage
    /\ body = <<>>
    /\ ip = 1
    /\ ci = 1
    /\ guard = TRUE
    /\ pending = Pending
    /\ result = Pending
    /\ sandbox_tmp = {}
    /\ invocations = <<>>
    /\ containers = <<>>
    /\ issued = {}
    /\ collided = {}
    /\ trace = <<>>

NextScripts ==
    \/ stage = RunScriptsStage /\ StageEnter
    \/ stage = RunScriptsStage /\ CpStep
    \/ stage = RunScriptsStage /\ ExecStep
    \/ stage = RunScriptsStage /\ StageExit
    \/ CleanupStop
    \/ CleanupRm

SpecScripts == InitScripts /\ [][NextScripts]_vars

-----------------------------------------------------------------------------
(* Two builds of the same configuration in the same working directory, run  *)
(* as two processes against one podman.  Each process is build_iso_pipeline *)
(* from its call of setup_container on; its steps are the podman processes  *)
(* it spawns, interleaved in any order with those of the other.  podman     *)
(* keeps one container per name: create fails when the name is taken.       *)

Invocations == {1, 2}

\* the commands and copies of one stage body, one podman process each; the
\* list files are in place, so opening them is no step
RECURSIVE FlattenBody(_)
FlattenBody(b) ==
    IF b = <<>> THEN <<>>
    ELSE (LET ins == Head(b) IN
          IF ins.kind = "exec"
          THEN [i \in DOMAIN ins.cmds |-> [op |-> "exec", text |-> ins.cmds[i], stage |-> ins.stage]]
          ELSE IF ins.kind = "cp"
          THEN <<[op |-> "cp", text |-> ins.path, stage |-> "podman_cp"]>>
          ELSE <<>>)
         \o FlattenBody(Tail(b))

\* the commands and copies of the stages from stage i on, in program order
RECURSIVE PipelineCommands(_)
PipelineCommands(i) ==
    IF i > Len(Pipeline) THEN <<>>
    ELSE FlattenBody(StageBody(Pipeline[i])) \o PipelineCommands(i + 1)

\* who created the container of that name (0: there is none)
Owner(name) == IF name \in DOMAIN containers THEN containers[name].owner ELSE 0
IsRunningContainer(name) == name \in DOMAIN containers /\ containers[name].running

\* the exit statuses podman can give each subcommand in the present store
podman_create_outcomes(name) ==
    IF name \in DOMAIN containers THEN {"nonzero"} ELSE ExitOutcomes
podman_start_outcomes(name) ==
    IF name \in DOMAIN containers THEN ExitOutcomes ELSE {"nonzero"}
podman_exec_outcomes(name) ==
    IF IsRunningContainer(name) THEN ExitOutcomes ELSE {"nonzero"}
podman_stop_outcomes(name) ==
    IF name \in DOMAIN containers THEN ExitOutcomes ELSE {"nonzero"}
podman_rm_outcomes(name) ==
    IF name \in DOMAIN containers /\ ~containers[name].running THEN ExitOutcomes
    ELSE {"nonzero"}

\* the store after a subcommand that exited with out
podman_store(op, name, by, out) ==
    IF out # "ok" THEN containers
    ELSE CASE op = "create" ->
                [n \in DOMAIN containers \cup {name} |->
                    IF n = name THEN [owner |-> by, running |-> FALSE] ELSE containers[n]]
           [] op = "start" -> [containers EXCEPT ![name].running = TRUE]
           [] op = "stop" -> [containers EXCEPT ![name].running = FALSE]
           [] op = "rm" -> [n \in DOMAIN containers \ {name} |-> containers[n]]
           [] OTHER -> containers

\* one podman process spawned by build p against the container name
Issue(p, op, name, out) ==
    /\ issued' = issued \cup {[by |-> p, op |-> op, owner |-> Owner(name)]}
    /\ containers' = podman_store(op, name, p, out)

\* an error leaves build_iso_pipeline through `?`, see Raise
invocation_raise(inv, err) ==
    IF inv.guard
    THEN [inv EXCEPT !.pc = "cleanup_stop", !.pending = err]
    ELSE [inv EXCEPT !.pc = "done", !.result = err]

InitConcurrent ==
    /\ command = "build"
    /\ \E d \in SupportedDistros :
         config = [distro |-> d, image_name |-> "hackeros", installer |-> None,
                   architecture |-> None]
    /\ release = FALSE
    /\ json_output = FALSE
    /\ \E rl \in RemoveFiles :
       fs = [cfg_package_lists |-> File(<<"vim", "bash">>),
             package_lists |-> File(<<"vim", "bash">>),
             remove_list |-> rl, scripts |-> NoDir,
             files |-> FALSE, install_files |-> FALSE, repos |-> FALSE, podman |-> TRUE]
    /\ pc = "concurrent"
    /\ stage = 0
    /\ body = <<>>
    /\ ip = 1
    /\ ci = 1
    /\ guard = FALSE
    /\ pending = Pending
    /\ result = Pending
    /\ sandbox_tmp = {}
    /\ invocations = [p \in Invocations |->
                        [pc |-> "setup_pull", next |-> 1, guard |-> FALSE,
                         pending |-> Pending, result |-> Pending]]
    /\ containers = <<>>
    /\ issued = {}
    /\ collided = {}
    /\ trace = <<>>

run_vars == <<command, config, release, json_output, fs, pc, stage, body, ip, ci,
              guard, pending, result, sandbox_tmp, trace>>

\* setup_container: podman pull
InvocationPull(p) ==
    /\ invocations[p].pc = "setup_pull"
    /\ \E out \in ExitOutcomes :
         LET r == pull_result(out) IN
         invocations' = [invocations EXCEPT ![p] =
                            IF IsErr(r) THEN invocation_raise(@, r)
                            ELSE [@ EXCEPT !.pc = "setup_create"]]
    /\ UNCHANGED <<containers, issued, collided, run_vars>>

\* setup_container: podman create --name container_name
InvocationCreate(p) ==
    /\ invocations[p].pc = "setup_create"
    /\ LET name == container_name(config) IN
       \E out \in podman_create_outcomes(name) :
         LET r == create_result(out) IN
         /\ Issue(p, "create", name, out)
         /\ collided' = IF name \in DOMAIN containers THEN collided \cup {p} ELSE collided
         /\ invocations' = [invocations EXCEPT ![p] =
                               IF IsErr(r) THEN invocation_raise(@, r)
                               ELSE [@ EXCEPT !.pc = "setup_start"]]
    /\ UNCHANGED run_vars

\* setup_container: podman start, Ok(container_name); defer! is registered
InvocationStart(p) ==
    /\ invocations[p].pc = "setup_start"
    /\ LET name == container_name(config) IN
       \E out \in podman_start_outcomes(name) :
         LET r == start_result(out) IN
         /\ Issue(p, "start", name, out)
         /\ invocations' = [invocations EXCEPT ![p] =
                               IF IsErr(r) THEN invocation_raise(@, r)
                               ELSE [@ EXCEPT !.pc = "stages", !.guard = TRUE]]
    /\ UNCHANGED <<collided, run_vars>>

\* the next podman exec or podman cp of the stages
InvocationCommand(p) ==
    /\ invocations[p].pc = "stages"
    /\ invocations[p].next <= Len(PipelineCommands(1))
    /\ LET name == container_name(config)
           c == PipelineCommands(1)[invocations[p].next]
       IN \E out \in podman_exec_outcomes(name) :
            LET r == IF c.op = "cp" THEN cp_result(out) ELSE exec_result(c.text, c.stage, out) IN
            /\ Issue(p, c.op, name, out)
            /\ invocations' = [invocations EXCEPT ![p] =
                                  IF IsErr(r) THEN invocation_raise(@, r)
                                  ELSE [@ EXCEPT !.next = @ + 1]]
    /\ UNCHANGED <<collided, run_vars>>

\* create_iso returned: build_iso_pipeline returns Ok(()) and its scope ends
InvocationReturn(p) ==
    /\ invocations[p].pc = "stages"
    /\ invocations[p].next > Len(PipelineCommands(1))
    /\ invocations' = [invocations EXCEPT ![p] = invocation_raise(@, Ok)]
    /\ UNCHANGED <<containers, issued, collided, run_vars>>

\* cleanup_container: podman stop
InvocationStop(p) ==
    /\ invocations[p].pc = "cleanup_stop"
    /\ LET name == container_name(config) IN
       \E out \in podman_stop_outcomes(name) :
         /\ Issue(p, "stop", name, out)
         /\ invocations' = [invocations EXCEPT ![p] =
                               IF cleanup_after_stop(out) = "rm"
                               THEN [@ EXCEPT !.pc = "cleanup_rm"]
                               ELSE [@ EXCEPT !.pc = "done", !.guard = FALSE,
                                               !.result = @.pending]]
    /\ UNCHANGED <<collided, run_vars>>

\* cleanup_container: podman rm; then the error in flight, or Ok(()), is returned
InvocationRm(p) ==
    /\ invocations[p].pc = "cleanup_rm"
    /\ LET name == container_name(config) IN
       \E out \in podman_rm_outcomes(name) :
         /\ Issue(p, "rm", name, out)
         /\ invocations' = [invocations EXCEPT ![p] =
                               [@ EXCEPT !.pc = "done", !.guard = FALSE,
                                         !.result = invocations[p].pending]]
    /\ UNCHANGED <<collided, run_vars>>

NextConcurrent ==
    \E p \in Invocations :
       \/ InvocationPull(p)
       \/ InvocationCreate(p)
       \/ InvocationStart(p)
       \/ InvocationCommand(p)
       \/ InvocationReturn(p)
       \/ InvocationStop(p)
       \/ InvocationRm(p)

SpecConcurrent == InitConcurrent /\ [][NextConcurrent]_vars

-----------------------------------------------------------------------------
(* Reading the history *)

\* podman subcommands that act on the build sandbox
SandboxOps == {"pull", "create", "start", "exec", "cp", "stop", "rm"}

IsPodman(e, ops) == e.type = "podman" /\ e.op \in ops
IsProgress(e, name, progress) == e.type = "progress" /\ e.fn = name /\ e.arg = progress

PodmanIdx(ops) == {i \in DOMAIN trace : IsPodman(trace[i], ops)}
CallIdx(fn) == {i \in DOMAIN trace : trace[i] = CallEv(fn)}
ReturnedOk(fn) == \E i \in DOMAIN trace : trace[i] = ReturnEv(fn, Ok)
ReturnedErr(fn) == \E i \in DOMAIN trace : trace[i] = ReturnEv(fn, IoError)

\* setup_container returned Ok(container_name)
Provisioned == ReturnedOk("setup_container")

-----------------------------------------------------------------------------
(* C1 *)

\* C1: once setup_container has succeeded, cleanup_container (podman stop,
\* then podman rm) has been invoked exactly once when the pipeline has
\* returned, whatever stage failed or if none did; it is never invoked twice.
C1_TeardownExactlyOnce ==
    /\ Cardinality(CallIdx("cleanup_container")) <= 1
    /\ Cardinality(PodmanIdx({"stop"})) <= 1
    /\ Cardinality(PodmanIdx({"rm"})) <= 1
    /\ (Provisioned /\ (pc = "done" \/ result # Pending)) =>
          /\ Cardinality(CallIdx("cleanup_container")) = 1
          /\ \E i \in PodmanIdx({"stop"}) : \E j \in PodmanIdx({"rm"}) :
                /\ i < j
                /\ \A k \in CallIdx("cleanup_container") : k < i
                /\ \A k \in DOMAIN trace :
                      trace[k] = ReturnEv("setup_container", Ok) => k < i

C1_Witness ==
    /\ pc = "done"
    /\ Provisioned
    /\ result = CommandError("build_rootfs",
                   "Command failed: debootstrap --arch=amd64 stable /workspace/build/rootfs http://deb.debian.org/debian")
    /\ Cardinality(PodmanIdx({"stop"})) = 1
    /\ Cardinality(PodmanIdx({"rm"})) = 1

-----------------------------------------------------------------------------
(* C2 *)

\* the stage order the specification fixes, provision and teardown under
\* the names of the functions that implement them
StageOrder ==
    << "setup_container", "install_packages", "remove_packages", "run_scripts",
       "build_rootfs", "copy_files", "install_installer", "install_custom_packages",
       "create_iso", "cleanup_container" >>

StageNames == {StageOrder[i] : i \in DOMAIN StageOrder}

\* the stages started so far, in the order they started
StartedStages ==
    SelectSeq(trace, LAMBDA e : e.type = "call" /\ e.fn \in StageNames)

\* C2: the stages that start form a prefix of provision .. create_iso, each
\* started once and only right after the preceding stage returned success
\* (so after all its commands); teardown starts last; every command and
\* progress event of a stage lies between its start and its return.
C2_FixedStageOrder ==
    /\ \A i \in DOMAIN StartedStages :
          \/ StartedStages[i].fn = StageOrder[i] /\ i < Len(StageOrder)
          \/ StartedStages[i].fn = "cleanup_container" /\ i = Len(StartedStages) /\ i > 1
    /\ \A k \in 2..Len(StageOrder) : \A j \in CallIdx(StageOrder[k]) :
          /\ j > 1
          /\ IF k < Len(StageOrder)
             THEN trace[j - 1] = ReturnEv(StageOrder[k - 1], Ok)
             ELSE trace[j - 1].type = "return" /\ trace[j - 1].fn \in StageNames
    /\ \A n \in StageNames :
          LET calls == CallIdx(n)
              returns == {b \in DOMAIN trace : trace[b].type = "return" /\ trace[b].fn = n}
          IN \A j \in DOMAIN trace :
                (trace[j].type \in {"podman", "open", "progress"} /\ trace[j].fn = n) =>
                   /\ \E a \in calls : a < j
                   /\ \A b \in returns : j < b

C2_Witness ==
    /\ pc = "done"
    /\ config.distro = "debian"
    /\ result = Ok
    /\ Len(StartedStages) = Len(StageOrder)
    /\ fs.scripts.exists /\ fs.repos /\ fs.files

-----------------------------------------------------------------------------
(* C3 *)

\* remote commands and file copies that failed
FailedIdx == {i \in PodmanIdx({"exec", "cp"}) : trace[i].out # "ok"}

\* the error a failed command or copy makes its stage return
StageFailure(e) ==
    IF e.out = "ioerr" THEN IoError
    ELSE IF e.op = "cp" THEN CommandError("podman_cp", "Podman cp failed")
    ELSE CommandError(e.fn, "Command failed: " \o e.arg)

\* C3: after a remote command or a file copy of a stage has failed, the
\* stage returns at once, the next thing the pipeline does is the teardown
\* (stop, then rm), no further command, copy, stage or progress event
\* follows, and the failure of that stage is what the pipeline returns,
\* only after the teardown.
C3_FailureGoesToTeardown ==
    \A i \in FailedIdx :
       LET n == Len(trace) IN
       /\ Provisioned
       /\ n > i
       /\ trace[i + 1] = ReturnEv(trace[i].fn, IoError)
       /\ \A j \in (i + 2)..n :
             /\ trace[j].fn = "cleanup_container"
             /\ trace[j].type \in {"call", "podman", "return"}
       /\ n >= i + 2 => trace[i + 2] = CallEv("cleanup_container")
       /\ result # Pending =>
             /\ n = i + 5
             /\ IsPodman(trace[i + 3], {"stop"})
             /\ IsPodman(trace[i + 4], {"rm"})
             /\ result = StageFailure(trace[i])
       /\ pc = "done" => result # Pending

C3_Witness ==
    /\ pc = "done"
    /\ \E i \in FailedIdx : trace[i].op = "cp" /\ trace[i].fn = "run_scripts"
    /\ result = CommandError("podman_cp", "Podman cp failed")
    /\ PodmanIdx({"rm"}) # {}

-----------------------------------------------------------------------------
(* C4 *)

\* the commands podman_exec has run so far
Executed == SelectSeq(trace, LAMBDA e : IsPodman(e, {"exec"}))

\* C4: podman_exec runs the commands of its list in list order; when command
\* k exits non-zero nothing after it is run and the call fails with the
\* error that carries command k; the call succeeds exactly when all n
\* commands have run and none failed.
C4_ExecFailFast ==
    LET cmds == body[1].cmds
        ex == Executed
        returnedOk == pc = "stage_body" /\ ip = 2
    IN /\ Len(ex) <= Len(cmds)
       /\ \A k \in DOMAIN ex : ex[k].arg = cmds[k]
       /\ \A k \in DOMAIN ex :
             ex[k].out = "nonzero" =>
                /\ Len(ex) = k
                /\ \A j \in 1..(k - 1) : ex[j].out = "ok"
                /\ pc = "done"
                /\ result = CommandError("exec_in_sandbox", "Command failed: " \o cmds[k])
       /\ returnedOk =>
             /\ Len(ex) = Len(cmds)
             /\ \A k \in DOMAIN ex : ex[k].out = "ok"
             /\ result = Pending
       /\ (ex # <<>> /\ Len(ex) = Len(cmds) /\ \A k \in DOMAIN ex : ex[k].out = "ok") =>
             returnedOk
       /\ pc = "done" => (ex # <<>> /\ ex[Len(ex)].out # "ok" /\ IsErr(result))

C4_Witness ==
    /\ Len(body[1].cmds) = 3
    /\ Len(Executed) = 2
    /\ Executed[1].out = "ok"
    /\ Executed[2].out = "nonzero"
    /\ pc = "done"
    /\ result = CommandError("exec_in_sandbox", "Command failed: " \o body[1].cmds[2])

-----------------------------------------------------------------------------
(* C5 *)

SetupSteps == {"pull", "create", "start"}

\* the message setup_container is to fail with when a step exits non-zero
SetupFailure(op) ==
    CommandError("setup_container",
                 IF op = "pull" THEN "Podman pull failed"
                 ELSE IF op = "create" THEN "Podman create failed"
                 ELSE "Podman start failed")

\* C5: setup_container fails, with an error naming the step, whenever podman
\* pull, create or start exits non-zero; it returns the container handle
\* only if all three exited with status zero.
C5_ProvisionFailsOnNonZeroStep ==
    /\ \A i \in PodmanIdx(SetupSteps) :
          trace[i].out = "nonzero" =>
             /\ ~Provisioned
             /\ i < Len(trace)
             /\ trace[i + 1] = ReturnEv("setup_container", IoError)
             /\ pc = "done" => result = SetupFailure(trace[i].op)
    /\ Provisioned => \A i \in PodmanIdx(SetupSteps) : trace[i].out = "ok"

-----------------------------------------------------------------------------
(* C6 *)

\* C6: when a step of setup_container (pull, create or start) has exited
\* non-zero, podman stop and podman rm have been attempted on the container
\* by the time the pipeline has returned.
C6_TeardownAfterFailedProvision ==
    (pc = "done" /\ \E i \in PodmanIdx(SetupSteps) : trace[i].out = "nonzero") =>
       /\ PodmanIdx({"stop"}) # {}
       /\ PodmanIdx({"rm"}) # {}

-----------------------------------------------------------------------------
(* C7 *)

\* C7: a Build run whose image_name is empty, or whose package-lists file
\* next to the config is missing or empty, ends in validate_config with a
\* validation error, before the backend is built, and no podman pull,
\* create, start, exec, cp, stop or rm is ever attempted.
C7_InvalidInputsStopBeforePipeline ==
    (/\ command = "build"
     /\ \/ config.image_name = ""
        \/ ~fs.cfg_package_lists.exists
        \/ fs.cfg_package_lists.lines = <<>>) =>
       /\ PodmanIdx(SandboxOps) = {}
       /\ CallIdx("create_distro_backend") = {}
       /\ pc \in {"main", "done"}
       /\ pc = "done" => result.kind = "Validation"

C7_Witness ==
    /\ command = "build"
    /\ config.distro = "fedora"
    /\ config.image_name # ""
    /\ fs.cfg_package_lists = File(<<>>)
    /\ fs.podman
    /\ pc = "done"
    /\ result = ValidationError("package-lists file is missing or empty")
    /\ PodmanIdx(SandboxOps) = {}

-----------------------------------------------------------------------------
(* C8 *)

\* C8: for a distro other than fedora and debian, validate_config fails with
\* a validation error, create_distro_backend yields UnsupportedDistro, the
\* run ends in validation, and no podman pull, create, start, exec, cp, stop
\* or rm is ever attempted.
C8_UnsupportedDistroRejected ==
    config.distro \notin {"fedora", "debian"} =>
       /\ validate_config(config, fs).kind = "Validation"
       /\ create_distro_backend(config) = UnsupportedDistro(config.distro)
       /\ PodmanIdx(SandboxOps) = {}
       /\ pc \in {"main", "done"}
       /\ pc = "done" => result = ValidationError("Unsupported distro: " \o config.distro)

C8_Witness ==
    /\ config.distro = "arch"
    /\ config.image_name # ""
    /\ fs.cfg_package_lists = File(<<"vim", "bash">>)
    /\ command = "build"
    /\ pc = "done"
    /\ result = ValidationError("Unsupported distro: arch")
    /\ PodmanIdx(SandboxOps) = {}

-----------------------------------------------------------------------------
(* C9 *)

\* the stages that report progress: provision through create_iso
ProgressStages == {StageOrder[i] : i \in 1..(Len(StageOrder) - 1)}

ProgressIdx(n) == {i \in DOMAIN trace : trace[i].type = "progress" /\ trace[i].fn = n}
ReturnIdx(n) == {i \in DOMAIN trace : trace[i].type = "return" /\ trace[i].fn = n}
WorkIdx(n) == {i \in DOMAIN trace : trace[i].type \in {"podman", "open"} /\ trace[i].fn = n}

\* C9 as stated: every stage that was entered and has returned, whether with
\* success or with an error, has emitted exactly two progress events under
\* its name, 0.0 right at entry and 1.0 right before it returned.
C9_TwoEventsForEveryEnteredStage ==
    \A n \in ProgressStages : \A a \in CallIdx(n) : \A b \in ReturnIdx(n) :
       /\ ProgressIdx(n) = {a + 1, b - 1}
       /\ IsProgress(trace[a + 1], n, "0.0")
       /\ IsProgress(trace[b - 1], n, "1.0")

\* C9 (amended): every stage entered emits the 0.0 event under its name at
\* entry, before any of its commands; a stage that returns success has then
\* emitted exactly one more event, 1.0, after its last command, also when
\* it had no work to do; a stage that fails or is still running has emitted
\* the 0.0 event only; a stage never entered has emitted nothing.
C9_ProgressEvents ==
    \A n \in ProgressStages :
       LET calls == CallIdx(n)
           returns == ReturnIdx(n)
           events == ProgressIdx(n)
           work == WorkIdx(n)
       IN /\ calls = {} => events = {}
          /\ \A a \in calls :
                /\ a < Len(trace)
                /\ trace[a + 1] = emit_progress(n, "0.0", json_output)
                /\ \A w \in work : w > a + 1
                /\ returns = {} => events = {a + 1}
                /\ \A b \in returns :
                      IF trace[b].out = "Ok"
                      THEN /\ events = {a + 1, b - 1}
                           /\ a + 1 < b - 1
                           /\ trace[b - 1] = emit_progress(n, "1.0", json_output)
                           /\ \A w \in work : w < b - 1
                      ELSE events = {a + 1}

C9_Witness ==
    /\ pc = "done"
    /\ result = Ok
    /\ ~json_output
    /\ ~fs.remove_list.exists
    /\ \E a \in CallIdx("remove_packages") :
          /\ IsProgress(trace[a + 1], "remove_packages", "0.0")
          /\ IsProgress(trace[a + 2], "remove_packages", "1.0")
          /\ trace[a + 3] = ReturnEv("remove_packages", Ok)
    /\ \A n \in ProgressStages : Cardinality(ProgressIdx(n)) = 2

-----------------------------------------------------------------------------
(* C10 *)

\* the remote commands and copies issued by stage n
CommandIdx(n) == {i \in PodmanIdx({"exec", "cp"}) : trace[i].fn = n}

IsRunning(n) == pc = "stage_body" /\ stage > 0 /\ Pipeline[stage] = n

\* stage n issues nothing, and once left it has emitted its two progress
\* events and returned success
SilentNoOp(n) ==
    /\ CommandIdx(n) = {}
    /\ \A a \in CallIdx(n) :
          /\ a < Len(trace)
          /\ IsProgress(trace[a + 1], n, "0.0")
          /\ ~IsRunning(n) =>
                /\ a + 3 <= Len(trace)
                /\ IsProgress(trace[a + 2], n, "1.0")
                /\ trace[a + 3] = ReturnEv(n, Ok)

FilesCommands == {"cp -r /workspace/files/* /workspace/build/rootfs"}

InstallFilesCommands ==
    {"mkdir -p /workspace/build/rootfs/opt/install-files",
     "cp -r /workspace/install-files/* /workspace/build/rootfs/opt/install-files"}

\* C10: a stage whose optional input is absent issues no remote command and
\* no copy, succeeds and emits its two progress events: remove_packages
\* without packages-lists-remove, run_scripts without scripts,
\* install_custom_packages without repos, install_installer without an
\* installer, copy_files without files and install-files; and in copy_files
\* the sub-copy of an absent directory issues none of its commands.
C10_AbsentOptionalInputIsNoOp ==
    /\ ~fs.remove_list.exists => SilentNoOp("remove_packages")
    /\ ~fs.scripts.exists => SilentNoOp("run_scripts")
    /\ ~fs.repos => SilentNoOp("install_custom_packages")
    /\ ~config.installer.some => SilentNoOp("install_installer")
    /\ (~fs.files /\ ~fs.install_files) => SilentNoOp("copy_files")
    /\ ~fs.files =>
          \A i \in CommandIdx("copy_files") : trace[i].arg \notin FilesCommands
    /\ ~fs.install_files =>
          \A i \in CommandIdx("copy_files") : trace[i].arg \notin InstallFilesCommands

C10_Witness ==
    /\ pc = "done"
    /\ result = Ok
    /\ config.distro = "fedora"
    /\ ~fs.remove_list.exists /\ ~fs.scripts.exists /\ ~fs.repos
    /\ ~config.installer.some /\ ~fs.files /\ ~fs.install_files
    /\ Cardinality(PodmanIdx({"exec", "cp"})) = 4
    /\ \A n \in {"remove_packages", "run_scripts", "install_custom_packages",
                 "install_installer", "copy_files"} :
          ReturnedOk(n) /\ Cardinality(ProgressIdx(n)) = 2


-----------------------------------------------------------------------------
(* run_scripts *)

Range(f) == {f[i] : i \in DOMAIN f}

\* the *.sh files of the scripts directory
ShNames ==
    IF fs.scripts.exists
    THEN {file_name(e) : e \in {x \in Range(fs.scripts.entries) : x.ext = "sh"}}
    ELSE {}

\* the commands run_scripts gave to the container, and the copies it made
RunIdx == {i \in DOMAIN trace : IsPodman(trace[i], {"exec"}) /\ trace[i].fn = "run_scripts"}
CopyIdx == {i \in DOMAIN trace : IsPodman(trace[i], {"cp"}) /\ trace[i].fn = "run_scripts"}
Runs(i, name) == trace[i].arg = "bash /tmp/" \o name \o " && rm /tmp/" \o name
Copies(i, name) == trace[i].arg = "scripts/" \o name

\* C11: run_scripts executes the *.sh files of the scripts directory in
\* ascending order of their file names whatever order the directory listing
\* has: every executed command runs a *.sh file of the directory, a file
\* executed later has a greater name (so none runs twice), every *.sh file
\* smaller than an executed one was executed before it, and a successful
\* run_scripts has executed all of them; other files are never executed
C11_ScriptsInLexicalOrder ==
    /\ \A i \in RunIdx : \E n \in ShNames : Runs(i, n)
    /\ \A i \in RunIdx : \A j \in RunIdx : \A n \in ShNames : \A m \in ShNames :
          (i < j /\ Runs(i, n) /\ Runs(j, m)) => Rank(n) < Rank(m)
    /\ \A i \in RunIdx : \A n \in ShNames : \A m \in ShNames :
          (Runs(i, n) /\ Rank(m) < Rank(n)) => \E j \in RunIdx : j < i /\ Runs(j, m)
    /\ ReturnedOk("run_scripts") => \A n \in ShNames : \E i \in RunIdx : Runs(i, n)

\* the listing b.sh, a.sh, c.sh was executed as a.sh, b.sh, c.sh
C11_Witness ==
    /\ fs.scripts = Dir(<<Entry("b", "sh"), Entry("a", "sh"), Entry("c", "sh")>>)
    /\ ReturnedOk("run_scripts")
    /\ \E i \in RunIdx : \E j \in RunIdx : \E k \in RunIdx :
          i < j /\ j < k /\ Runs(i, "a.sh") /\ Runs(j, "b.sh") /\ Runs(k, "c.sh")

\* C16: in run_scripts every script is copied into the container, then
\* executed, then its copy is removed, in that order: each executed command
\* directly follows the successful copy of the script it runs, a copy is
\* only made after the commands of all earlier scripts succeeded and with no
\* earlier copy left under /tmp, and when run_scripts returns Ok(()) no
\* copy of a script remains in the container
C16_CopyRunDelete ==
    /\ \A i \in RunIdx :
          /\ i - 1 \in CopyIdx
          /\ trace[i - 1].out = "ok"
          /\ \E n \in ShNames : Copies(i - 1, n) /\ Runs(i, n)
    /\ \A i \in CopyIdx : \A k \in CopyIdx :
          k < i => (k + 1 \in RunIdx /\ trace[k + 1].out = "ok")
    /\ (pc = "stage_body" /\ ip <= Len(body) /\ body[ip].kind = "cp") => sandbox_tmp = {}
    /\ Cardinality(sandbox_tmp) <= 1
    /\ ReturnedOk("run_scripts") => sandbox_tmp = {}

\* two scripts were copied, run and removed one after the other
C16_Witness ==
    /\ ReturnedOk("run_scripts")
    /\ Cardinality(CopyIdx) = 2
    /\ Cardinality(RunIdx) = 2
    /\ sandbox_tmp = {}

-----------------------------------------------------------------------------
(* the commands of a whole build *)

\* the commands and copies given to the container so far, in order
IsCommand(e) == IsPodman(e, {"exec", "cp"})
Commands == SelectSeq(trace, IsCommand)
CommandTexts == [i \in DOMAIN Commands |-> Commands[i].arg]
IsPrefix(s, t) == Len(s) <= Len(t) /\ s = SubSeq(t, 1, Len(s))

NoOptionalInputs ==
    /\ ~fs.remove_list.exists
    /\ ~fs.scripts.exists
    /\ ~fs.files
    /\ ~fs.install_files
    /\ ~fs.repos
    /\ ~config.installer.some

FedoraMinimalBuild ==
    /\ command = "build"
    /\ config.distro = "fedora"
    /\ ~config.architecture.some
    /\ fs.package_lists = File(<<"vim", "bash">>)
    /\ NoOptionalInputs
    /\ ~release

FedoraMinimalCommands ==
    << "dnf makecache --cachedir=/cache/dnf",
       "dnf --cachedir=/cache/dnf install -y vim bash",
       "dnf install --installroot /workspace/build/rootfs --releasever=latest -y @core",
       "lorax -p " \o config.image_name \o " -v latest -r latest --rootfs-size=3"
           \o " --buildarch=x86_64 -s http://download.fedoraproject.org/pub/fedora/linux/"
           \o "releases/latest/Everything/x86_64/os/ --isfinal=false"
           \o " /workspace/build/release/debug.iso" >>

\* C12: a Fedora build whose package-lists holds vim and bash, with no
\* optional input and the release flag off, gives the container the
\* metadata refresh, the install of "vim bash", the root file system build
\* and the image command for debug.iso, in that order and nothing else: at
\* every moment the commands issued are a prefix of these four, a run that
\* returned Ok(()) has issued all four, and the teardown came after them
C12_FedoraMinimalBuild ==
    FedoraMinimalBuild =>
      /\ IsPrefix(CommandTexts, FedoraMinimalCommands)
      /\ (pc = "done" /\ result = Ok) =>
            /\ CommandTexts = FedoraMinimalCommands
            /\ \A k \in DOMAIN Commands : Commands[k].out = "ok"
            /\ \E i \in PodmanIdx({"stop"}) : \E j \in PodmanIdx({"rm"}) :
                  /\ i < j
                  /\ \A c \in PodmanIdx({"exec", "cp"}) : c < i

C12_Witness ==
    /\ FedoraMinimalBuild
    /\ pc = "done"
    /\ result = Ok
    /\ Len(Commands) = 4
    /\ Commands[4].fn = "create_iso"

\* the image commands of the two backends, by the file they write
LoraxCommand(final, iso) ==
    "lorax -p " \o config.image_name \o " -v latest -r latest --rootfs-size=3"
        \o " --buildarch=x86_64 -s http://download.fedoraproject.org/pub/fedora/linux/"
        \o "releases/latest/Everything/x86_64/os/ --isfinal=" \o final
        \o " /workspace/build/release/" \o iso
XorrisoCommand(iso) ==
    "xorriso -as mkisofs -o /workspace/build/release/" \o iso \o " /workspace/build/rootfs"
ImageCommandsFor(iso) ==
    {LoraxCommand("true", iso), LoraxCommand("false", iso), XorrisoCommand(iso)}
ImageCommandTexts == ImageCommandsFor("release.iso") \cup ImageCommandsFor("debug.iso")
ImageIdx == {i \in PodmanIdx({"exec", "cp"}) : trace[i].arg \in ImageCommandTexts}

\* C13: a build that returned Ok(()) has issued exactly one image command,
\* as the last command of the run, writing release.iso when the release
\* flag is set and debug.iso when it is not; no run issues more than one or
\* one for the other file, and a run that failed before create_iso was
\* called has issued none
C13_OneImageCommand ==
    /\ Cardinality(ImageIdx) <= 1
    /\ \A i \in ImageIdx :
          /\ trace[i].fn = "create_iso"
          /\ trace[i].arg \in ImageCommandsFor(IF release THEN "release.iso" ELSE "debug.iso")
    /\ (pc = "done" /\ result = Ok /\ command = "build") =>
          \E i \in ImageIdx :
            /\ trace[i].out = "ok"
            /\ \A c \in PodmanIdx({"exec", "cp"}) : c <= i
    /\ (pc = "done" /\ IsErr(result) /\ CallIdx("create_iso") = {}) => ImageIdx = {}

\* a release build ended with the command that writes release.iso
C13_Witness ==
    /\ release
    /\ pc = "done"
    /\ result = Ok
    /\ \E i \in ImageIdx : trace[i].arg \in ImageCommandsFor("release.iso")

-----------------------------------------------------------------------------
(* teardown *)

\* what the pipeline's stages made of the run, whatever the teardown did
StagesResult ==
    IF FailedIdx # {} THEN StageFailure(trace[CHOOSE i \in FailedIdx : TRUE])
    ELSE IF \E i \in DOMAIN trace : trace[i].type = "open" /\ trace[i].out # "ok" THEN IoError
    ELSE Ok

\* C14: the teardown is best effort: after podman stop, whatever its
\* status, podman rm is the next thing attempted, cleanup_container returns
\* Ok(()) whatever the two statuses were, and what the build returns is
\* what its stages made of it, the same for every outcome of stop and rm
C14_TeardownBestEffort ==
    /\ \A i \in PodmanIdx({"stop"}) :
          \/ pc = "cleanup_rm" /\ i = Len(trace)
          \/ i + 1 \in PodmanIdx({"rm"}) /\ trace[Len(trace)] = ReturnEv("cleanup_container", Ok)
    /\ (pc = "done" /\ PodmanIdx({"stop"}) # {}) => result = StagesResult

\* stop and rm both failed after a build whose stages all succeeded
C14_Witness ==
    /\ pc = "done"
    /\ result = Ok
    /\ \E i \in PodmanIdx({"stop"}) : trace[i].out = "nonzero"
    /\ \E j \in PodmanIdx({"rm"}) : trace[j].out = "nonzero"

-----------------------------------------------------------------------------
(* the container's life *)

\* a provisioning step completed successfully before position c
DoneBefore(op, c) == \E i \in PodmanIdx({op}) : i < c /\ trace[i].out = "ok"

\* C15: every command and every copy is issued while the container is
\* live: after podman pull, podman create and podman start have each
\* completed successfully, and before podman stop is issued
C15_CommandsOnlyWhileLive ==
    \A c \in PodmanIdx({"exec", "cp"}) :
       /\ DoneBefore("pull", c)
       /\ DoneBefore("create", c)
       /\ DoneBefore("start", c)
       /\ \A s \in PodmanIdx({"stop", "rm"}) : c < s

-----------------------------------------------------------------------------
(* the error of a failed command *)

\* message contains text: it is text between two pieces made of the
\* separators of the program's messages and the other data of the command
Separators == {"", " ", ": ", " - stderr: ", "Command failed: "}
Pieces(data) == {a \o d \o b : a \in Separators, d \in data \cup {""}, b \in Separators}
Mentions(message, text, data) ==
    \E p \in Pieces(data) : \E q \in Pieces(data) : message = p \o text \o q

\* C17: the error podman_exec returns for a command that exited with a
\* non-zero status is a Command error that carries the stage name, the text
\* of the failing command and the standard error captured from it
C17_ErrorCarriesStderr ==
    \A k \in DOMAIN Executed :
       (Executed[k].out = "nonzero" /\ pc = "done") =>
          LET cmd == Executed[k].arg
              stderr == captured_stderr(Executed[k].out)
          IN /\ result.kind = CommandError("", "").kind
             /\ result.stage = "exec_in_sandbox"
             /\ Mentions(result.message, cmd, {stderr})
             /\ Mentions(result.message, stderr, {cmd})

-----------------------------------------------------------------------------
(* install_packages *)

PackageTexts == {"", "vim bash"}
InstallTexts ==
    {"dnf --cachedir=/cache/dnf install -y " \o t : t \in PackageTexts}
      \cup {"DEBIAN_FRONTEND=noninteractive apt install -y " \o t : t \in PackageTexts}
PrepTexts == {"dnf makecache --cachedir=/cache/dnf", "apt update"}

\* the commands of install_packages (install_custom_packages of Debian
\* gives apt update too)
InstallIdx ==
    {i \in PodmanIdx({"exec"}) : trace[i].fn = "install_packages" /\ trace[i].arg \in InstallTexts}
PrepIdx ==
    {i \in PodmanIdx({"exec"}) : trace[i].fn = "install_packages" /\ trace[i].arg \in PrepTexts}

\* C18: install_packages issues the install command only after its
\* preparatory command (dnf makecache for Fedora, apt update for Debian)
\* has completed successfully; when the preparatory command fails the
\* install command is never issued; a successful install_packages has
\* issued both
C18_InstallAfterPreparation ==
    /\ \A i \in PodmanIdx({"exec"}) :
          trace[i].fn = "install_packages" => i \in InstallIdx \cup PrepIdx
    /\ \A i \in InstallIdx :
          /\ \E q \in PrepIdx :
                /\ q < i
                /\ trace[q].out = "ok"
                /\ trace[q].arg = (IF config.distro = "fedora"
                                   THEN "dnf makecache --cachedir=/cache/dnf"
                                   ELSE "apt update")
    /\ \A q \in PrepIdx : trace[q].out # "ok" => InstallIdx = {}
    /\ ReturnedOk("install_packages") => (InstallIdx # {} /\ PrepIdx # {})

\* Debian: apt update succeeded and the install command followed it
C18_Witness ==
    /\ config.distro = "debian"
    /\ \E q \in PrepIdx : \E i \in InstallIdx : q < i /\ trace[q].out = "ok"

\* C19: the package-lists file validate_config accepted is the file
\* install_packages reads, wherever the config is: once validation has
\* passed, install_packages never fails to open package-lists
C19_ValidatedFileIsInstalledFile ==
    ReturnedOk("validate_config") =>
       \A i \in DOMAIN trace :
          (trace[i].type = "open" /\ trace[i].fn = "install_packages"
             /\ trace[i].arg = "package-lists") => trace[i].out = "ok"

-----------------------------------------------------------------------------
(* progress events of failed stages *)

AllProgressIdx == {i \in DOMAIN trace : trace[i].type = "progress"}

\* C20: a stage's 1.0 event is emitted only if every command of that stage
\* succeeded; a stage that returned an error has emitted its 0.0 event and
\* no 1.0 event, and no progress event of any stage follows, so that the
\* last progress event of the run is the 0.0 event of the failing stage
C20_ExitEventOnlyAfterSuccess ==
    \A n \in ProgressStages :
       /\ \A e \in ProgressIdx(n) :
             IsProgress(trace[e], n, "1.0") => \A w \in WorkIdx(n) : trace[w].out = "ok"
       /\ \A b \in ReturnIdx(n) :
             trace[b].out = "Err" =>
                /\ \E e \in ProgressIdx(n) : IsProgress(trace[e], n, "0.0")
                /\ \A e \in ProgressIdx(n) : ~IsProgress(trace[e], n, "1.0")
                /\ \A e \in AllProgressIdx : e < b
                /\ \A e \in AllProgressIdx :
                      (\A f \in AllProgressIdx : f <= e) => IsProgress(trace[e], n, "0.0")

-----------------------------------------------------------------------------
(* concurrent builds *)

IssuedBy(p, ops) == {e \in issued : e.by = p /\ e.op \in ops}

\* C21: of two builds of the same distro interleaved in any order, a build
\* whose podman create failed because the container name was taken returns
\* the create error without ever issuing a stop, a remove, a start, a
\* command or a copy against that name; and every stop and every remove
\* that finds a container finds one that the issuing build created
C21_CollidingBuildLeavesTheContainerAlone ==
    /\ \A p \in collided :
          /\ IssuedBy(p, {"start", "exec", "cp", "stop", "rm"}) = {}
          /\ invocations[p].pc = "done"
          /\ invocations[p].result = CommandError("setup_container", "Podman create failed")
    /\ \A e \in issued :
          (e.op \in {"stop", "rm"} /\ e.owner # 0) => e.owner = e.by
    /\ \A e \in issued :
          (e.op \in {"start", "exec", "cp"} /\ e.owner # 0) => e.owner = e.by

\* one build found the name taken and returned, the other went on to run
\* commands in its container and then stopped and removed it
C21_Witness ==
    \E p \in collided : \E q \in Invocations \ {p} :
       /\ invocations[p].pc = "done"
       /\ invocations[q].pc = "done"
       /\ [by |-> q, op |-> "exec", owner |-> q] \in issued
       /\ [by |-> q, op |-> "stop", owner |-> q] \in issued
       /\ [by |-> q, op |-> "rm", owner |-> q] \in issued

====
